---- MODULE Spec2Model ----
\* Hierarchical chunk indexing of the zoning by-law pipeline
\* (app/chunk_pdf_local.py, app/chunks_pdf.py): heading extraction, the
\* code -> entry index, ancestor-path resolution, the streaming ancestor
\* stack and the records handed to the vector store.
EXTENDS Integers, Sequences, FiniteSets, TLC

\* ---------------------------------------------------------------- bounds
MaxChunks == 3      \* chunks per document
MaxKeys == 3        \* entries of an index handed to the resolver directly

\* ------------------------------------------------------- text vocabulary
Delim == " > "

\* heading titles of the documents explored
Titles == {"Permitted Uses", "Setbacks"}

\* A code is the sequence of its dot-separated components: "150.7.1" is
\* <<150, 7, 1>>.  The empty sequence stands for None / "" (both falsy).
\* Codes accepted by the pattern 150\.7(?:\.\d+)* : the root, two sibling
\* sections and a subsection.
HeadingCodes ==
    {<<150, 7>>, <<150, 7, 1>>, <<150, 7, 2>>, <<150, 7, 1, 1>>}

\* A chunk's text is the sequence of its lines; a line either starts with a
\* heading code followed by a title, starts with a parenthesised integer
\* label followed by a title, or is plain body text.
BodyLine == [kind |-> "body", code |-> <<>>, title |-> ""]
SubLines == {[kind |-> "sub", code |-> <<>>, title |-> t] : t \in Titles}
HeadLines == {[kind |-> "head", code |-> c, title |-> t] :
                 c \in HeadingCodes, t \in Titles}
Lines == {BodyLine} \cup SubLines \cup HeadLines
Chunks == {<<l>> : l \in Lines}

HeadChunk(c, t) == <<[kind |-> "head", code |-> c, title |-> t]>>
SubChunk(t) == <<[kind |-> "sub", code |-> <<>>, title |-> t]>>
BodyChunk == <<BodyLine>>

\* ------------------------------------------------------- pure functions
Min(S) == CHOOSE x \in S : \A y \in S : x <= y
Max(S) == CHOOSE x \in S : \A y \in S : x >= y

\* (None, None, None); the level None is written -1
NoMatch == [code |-> <<>>, title |-> "", level |-> -1]

\* count('.') of a code
CountDots(code) == Len(code) - 1

\* re.search with re.MULTILINE: the leftmost line that starts with a code
extract_heading_and_hierarchy(text) ==
    LET hs == {i \in 1..Len(text) : text[i].kind = "head"}
    IN IF hs = {} THEN NoMatch
       ELSE LET l == text[Min(hs)]
            IN [code |-> l.code, title |-> l.title, level |-> CountDots(l.code)]

\* mutant: the first chunk that carries a code keeps the entry
MapPutKeepFirst(m, code, entry) ==
    [c \in (DOMAIN m) \cup {code} |-> IF c \in DOMAIN m THEN m[c] ELSE entry]

\* hierarchy_map[heading_code] = {...}: a later chunk overwrites the entry
MapPut(m, code, entry) ==
    [c \in (DOMAIN m) \cup {code} |-> IF c = code THEN entry ELSE m[c]]

RECURSIVE BuildFrom(_, _, _)
BuildFrom(txts, i, m) ==
    IF i > Len(txts) THEN m
    ELSE LET h == extract_heading_and_hierarchy(txts[i])
         IN IF h.code # <<>> /\ h.title # ""
            THEN BuildFrom(txts, i + 1,
                     MapPut(m, h.code, [title |-> h.title, level |-> h.level,
                                        content |-> txts[i]]))
            ELSE BuildFrom(txts, i + 1, m)

EmptyMap == [c \in {} |-> [title |-> "", level |-> 0, content |-> <<>>]]

build_hierarchical_structure(txts) == BuildFrom(txts, 1, EmptyMap)

\* '.'.join(current_code.split('.')[:-1])
StripLast(code) == SubSeq(code, 1, Len(code) - 1)

RECURSIVE Reverse(_)
Reverse(s) == IF s = <<>> THEN <<>> ELSE Append(Reverse(Tail(s)), Head(s))

\* " > ".join(parts): the string as the sequence of its title and
\* delimiter tokens; the empty sequence is the empty string
RECURSIVE Join(_)
Join(parts) ==
    IF parts = <<>> THEN <<>>
    ELSE IF Len(parts) = 1 THEN <<parts[1]>>
    ELSE <<parts[1], Delim>> \o Join(Tail(parts))

\* the while loop of get_full_hierarchy_path: path_parts, leaf first
RECURSIVE Walk(_, _, _)
Walk(current_code, hmap, path_parts) ==
    LET parts == IF current_code \in DOMAIN hmap
                 THEN Append(path_parts, hmap[current_code].title)
                 ELSE path_parts
    IN IF Len(current_code) > 1
       THEN Walk(StripLast(current_code), hmap, parts)
       ELSE parts

\* mutant: the walk stops at the first code that is not in the index
RECURSIVE WalkStop(_, _, _)
WalkStop(current_code, hmap, path_parts) ==
    IF current_code \notin DOMAIN hmap THEN path_parts
    ELSE LET parts == Append(path_parts, hmap[current_code].title)
         IN IF Len(current_code) > 1
            THEN WalkStop(StripLast(current_code), hmap, parts)
            ELSE parts

get_full_hierarchy_path_stop(code, hmap) ==
    IF code = <<>> THEN <<>>
    ELSE Join(Reverse(WalkStop(code, hmap, <<>>)))

\* mutant: path_parts.reverse() is forgotten
get_full_hierarchy_path_norev(code, hmap) ==
    IF code = <<>> THEN <<>>
    ELSE Join(Walk(code, hmap, <<>>))

get_full_hierarchy_path(code, hmap) ==
    IF code = <<>> THEN <<>>
    ELSE Join(Reverse(Walk(code, hmap, <<>>)))

\* mutant: the stack is never truncated
PushHeadingNoTrunc(stack, level, title) == Append(stack, title)

\* current_hierarchy_stack[:level] followed by append(heading_title)
PushHeading(stack, level, title) ==
    Append(SubSeq(stack, 1, IF Len(stack) < level THEN Len(stack) ELSE level),
           title)

\* ---------------------------------------------------------------- state
VARIABLES texts, hierarchy_map, current_hierarchy_stack, points, idx, pc,
          store, returned, code, path, embeddings,
          reindexed, failed, batch_i,
          collection, env_key, query_result, searches, all_contexts, response,
          ranking, call, ops, result

\* the arguments of a call, the external operations it has performed and
\* what it returned
call_state == <<call, ops, result>>

\* state that the indexing loop and the resolver leave alone
rest == <<reindexed, failed, batch_i,
          collection, env_key, query_result, searches, all_contexts, response,
          ranking, call_state>>

\* the state of a query
query_state == <<collection, env_key, query_result, searches, all_contexts, response,
                 ranking>>

vars == <<texts, hierarchy_map, current_hierarchy_stack, points, idx, pc,
          store, returned, code, path, embeddings, rest>>

\* no sub-queries yet: transform_query has not returned
NoQueryResult ==
    [sub_queries |-> <<>>, combined_query |-> "", best_query |-> "",
     original_query |-> ""]

\* the same state where a specification does not use it
ReindexIdle == reindexed = FALSE
EmbedIdle == failed = {}
BatchIdle == batch_i = 0
QueryIdle ==
    /\ collection = "present"
    /\ env_key = TRUE
    /\ query_result = NoQueryResult
    /\ searches = <<>>
    /\ all_contexts = <<>>
    /\ response = ""
    /\ ranking = << >>
CallIdle ==
    /\ call = <<>>
    /\ ops = {}
    /\ result = <<>>

RestIdle == ReindexIdle /\ EmbedIdle /\ BatchIdle /\ QueryIdle /\ CallIdle

EmptyStore == [i \in {} |-> 0]

\* [0.0] * 768
EmbeddingDim == 768

\* a vector is known by its dimension and by the text it embeds; the
\* placeholder of a failed call embeds nothing
ZeroVector == [dim |-> EmbeddingDim, zero |-> TRUE, of |-> <<>>]

\* result['embedding'] of a successful embed_content call
Vec(text) == [dim |-> EmbeddingDim, zero |-> FALSE, of |-> text]

\* get_embeddings when every call succeeds
AllEmbedded(txts) == [k \in 1..Len(txts) |-> Vec(txts[k])]

\* mutant: identifiers count from one
MakePointOneBased(i, embedding, content, h, full_hierarchy) ==
    [id |-> i + 1,
     vector |-> embedding,
     text |-> content,
     heading_code |-> h.code,
     title |-> h.title,
     hierarchy |-> full_hierarchy,
     level |-> IF h.level # -1 THEN h.level ELSE 0,
     page |-> 0,
     source |-> "",
     chunk_index |-> i + 1]

\* mutant: identifiers continue after the records already in the store
MakePointAppend(i, embedding, content, h, full_hierarchy) ==
    [id |-> i + Cardinality(DOMAIN store),
     vector |-> embedding,
     text |-> content,
     heading_code |-> h.code,
     title |-> h.title,
     hierarchy |-> full_hierarchy,
     level |-> IF h.level # -1 THEN h.level ELSE 0,
     page |-> 0,
     source |-> "",
     chunk_index |-> i + Cardinality(DOMAIN store)]

\* mutant: the level of a headingless chunk is stored as it was extracted
MakePointRawLevel(i, embedding, content, h, full_hierarchy) ==
    [id |-> i,
     vector |-> embedding,
     text |-> content,
     heading_code |-> h.code,
     title |-> h.title,
     hierarchy |-> full_hierarchy,
     level |-> h.level,
     page |-> 0,
     source |-> "",
     chunk_index |-> i]

\* PointStruct(id=idx, vector=embedding, payload={...}); the loader's
\* metadata is not modelled, page and source take their defaults
MakePoint(i, embedding, content, h, full_hierarchy) ==
    [id |-> i,
     vector |-> embedding,
     text |-> content,
     heading_code |-> h.code,
     title |-> h.title,
     hierarchy |-> full_hierarchy,
     level |-> IF h.level # -1 THEN h.level ELSE 0,
     page |-> 0,
     source |-> "",
     chunk_index |-> i]

Documents == UNION {[1..n -> Chunks] : n \in 0..MaxChunks}

Init ==
    /\ texts \in Documents
    /\ hierarchy_map = EmptyMap
    /\ current_hierarchy_stack = <<>>
    /\ points = <<>>
    /\ idx = 0
    /\ pc = "build"
    /\ store = EmptyStore
    /\ returned = -1
    /\ code = <<>>
    /\ path = <<>>
    /\ embeddings = AllEmbedded(texts)
    /\ RestIdle

\* upsert_embeddings_to_qdrant, first statement
Build ==
    /\ pc = "build"
    /\ hierarchy_map' = build_hierarchical_structure(texts)
    /\ pc' = "loop"
    /\ UNCHANGED <<texts, current_hierarchy_stack, points, idx, store,
                   returned, code, path, embeddings>>
    /\ UNCHANGED rest

\* one iteration of the for loop over enumerate(zip(embeddings, texts))
ProcessChunk ==
    /\ pc = "loop"
    /\ idx < Len(texts)
    /\ idx < Len(embeddings)
    /\ LET content == texts[idx + 1]
           h == extract_heading_and_hierarchy(content)
           full_hierarchy ==
               IF h.code # <<>>
               THEN get_full_hierarchy_path(h.code, hierarchy_map)
               ELSE IF current_hierarchy_stack # <<>>
                    THEN Join(current_hierarchy_stack)
                    ELSE <<>>
       IN /\ current_hierarchy_stack' =
                 IF h.code # <<>> /\ h.title # ""
                 THEN PushHeading(current_hierarchy_stack, h.level, h.title)
                 ELSE current_hierarchy_stack
          /\ points' = Append(points,
                 MakePoint(idx, embeddings[idx + 1], content, h,
                           full_hierarchy))
    /\ idx' = idx + 1
    /\ UNCHANGED <<texts, hierarchy_map, pc, store, returned, code, path, embeddings>>
    /\ UNCHANGED rest

PointsById == [i \in {points[k].id : k \in 1..Len(points)} |->
                 (CHOOSE p \in {points[k] : k \in 1..Len(points)} : p.id = i)]

\* the upsert of the prepared points succeeds (fewer points than one
\* batch holds: the batch loop runs once)
UpsertOk ==
    /\ pc = "loop"
    /\ (idx = Len(texts) \/ idx = Len(embeddings))
    /\ store' = [i \in (DOMAIN store) \cup (DOMAIN PointsById) |->
                   IF i \in DOMAIN PointsById THEN PointsById[i] ELSE store[i]]
    /\ returned' = Len(points)
    /\ pc' = "done"
    /\ UNCHANGED <<texts, hierarchy_map, current_hierarchy_stack, points, idx,
                   code, path, embeddings>>
    /\ UNCHANGED rest

\* the upsert raises: the except branch returns 0
UpsertFail ==
    /\ pc = "loop"
    /\ (idx = Len(texts) \/ idx = Len(embeddings))
    /\ Len(points) > 0
    /\ returned' = 0
    /\ pc' = "done"
    /\ UNCHANGED <<texts, hierarchy_map, current_hierarchy_stack, points, idx,
                   store, code, path, embeddings>>
    /\ UNCHANGED rest

Next == Build \/ ProcessChunk \/ UpsertOk \/ UpsertFail

Spec == Init /\ [][Next]_vars

\* ----------------------------------------------- the worked example (spec)
Scenario ==
    << HeadChunk(<<150, 7, 1>>, "Permitted Uses"),
       BodyChunk,
       HeadChunk(<<150, 7, 1, 2>>, "Setbacks"),
       SubChunk("Minimum rear yard...") >>

ScenarioChunks == {Scenario[i] : i \in 1..Len(Scenario)}

InitScenario ==
    /\ texts \in UNION {[1..n -> ScenarioChunks] : n \in 0..Len(Scenario)}
    /\ hierarchy_map = EmptyMap
    /\ current_hierarchy_stack = <<>>
    /\ points = <<>>
    /\ idx = 0
    /\ pc = "build"
    /\ store = EmptyStore
    /\ returned = -1
    /\ code = <<>>
    /\ path = <<>>
    /\ embeddings = AllEmbedded(texts)
    /\ RestIdle

SpecScenario == InitScenario /\ [][Next]_vars

\* ------------------------------------------- indexing the document again
\* upsert_embeddings_to_qdrant is called again with the same embeddings
\* and texts on the same collection
Reindex ==
    /\ pc = "done"
    /\ hierarchy_map' = EmptyMap
    /\ current_hierarchy_stack' = <<>>
    /\ points' = <<>>
    /\ idx' = 0
    /\ returned' = -1
    /\ pc' = "build"
    /\ reindexed' = TRUE
    /\ UNCHANGED <<texts, store, code, path, embeddings, failed, batch_i>>
    /\ UNCHANGED query_state
    /\ UNCHANGED call_state

NextReindex == Next \/ Reindex

SpecReindex == Init /\ [][NextReindex]_vars

\* ------------------------------------------------------- get_embeddings
\* mutant: a failed call leaves no vector behind
AppendEmbeddingSkip(embs, text, ok) ==
    IF ok THEN Append(embs, Vec(text)) ELSE embs

\* the body of the loop: the try appends result['embedding'], the except
\* appends the placeholder
AppendEmbedding(embs, text, ok) ==
    IF ok THEN Append(embs, Vec(text)) ELSE Append(embs, ZeroVector)

\* the texts handed to get_embeddings
EmbedTexts == {BodyChunk, SubChunk("Setbacks")}

EmbedDocuments == UNION {[1..n -> EmbedTexts] : n \in 0..MaxChunks}

InitEmbed ==
    /\ texts \in EmbedDocuments
    /\ hierarchy_map = EmptyMap
    /\ current_hierarchy_stack = <<>>
    /\ points = <<>>
    /\ idx = 0
    /\ pc = "embed"
    /\ store = EmptyStore
    /\ returned = -1
    /\ code = <<>>
    /\ path = <<>>
    /\ embeddings = <<>>
    /\ RestIdle

\* genai.embed_content returns for the text at position idx
EmbedOk ==
    /\ pc = "embed"
    /\ idx < Len(texts)
    /\ embeddings' = AppendEmbedding(embeddings, texts[idx + 1], TRUE)
    /\ idx' = idx + 1
    /\ UNCHANGED <<texts, hierarchy_map, current_hierarchy_stack, points, pc,
                   store, returned, code, path>>
    /\ UNCHANGED rest

\* genai.embed_content raises for the text at position idx
EmbedFail ==
    /\ pc = "embed"
    /\ idx < Len(texts)
    /\ embeddings' = AppendEmbedding(embeddings, texts[idx + 1], FALSE)
    /\ failed' = failed \cup {idx + 1}
    /\ idx' = idx + 1
    /\ UNCHANGED <<texts, hierarchy_map, current_hierarchy_stack, points, pc,
                   store, returned, code, path>>
    /\ UNCHANGED <<reindexed, batch_i>>
    /\ UNCHANGED query_state
    /\ UNCHANGED call_state

\* return embeddings
EmbedReturn ==
    /\ pc = "embed"
    /\ idx = Len(texts)
    /\ pc' = "embedded"
    /\ UNCHANGED <<texts, hierarchy_map, current_hierarchy_stack, points, idx,
                   store, returned, code, path, embeddings>>
    /\ UNCHANGED rest

NextEmbed == EmbedOk \/ EmbedFail \/ EmbedReturn

SpecEmbed == InitEmbed /\ [][NextEmbed]_vars

\* ------------------------------------------------- the batches of the upsert
\* batch_size = 100
BatchSize == 100

\* the largest number of prepared points
MaxPoints == 201

\* the points prepared from n chunks without a heading, all embedded
BodyPoints(n) ==
    [k \in 1..n |-> MakePoint(k - 1, Vec(BodyChunk), BodyChunk, NoMatch, <<>>)]

InitBatch ==
    /\ \E n \in 0..MaxPoints :
          /\ texts = [k \in 1..n |-> BodyChunk]
          /\ embeddings = AllEmbedded(texts)
          /\ points = BodyPoints(n)
          /\ idx = n
    /\ hierarchy_map = EmptyMap
    /\ current_hierarchy_stack = <<>>
    /\ pc = "batch"
    /\ store = EmptyStore
    /\ returned = -1
    /\ code = <<>>
    /\ path = <<>>
    /\ RestIdle

\* mutant: a batch stops one record short
BatchShort(i) == SubSeq(points, i + 1, Min({i + BatchSize - 1, Len(points)}))

\* points[i:i + batch_size]
Batch(i) == SubSeq(points, i + 1, Min({i + BatchSize, Len(points)}))

\* qdrant_client.upsert of the batch at batch_i succeeds
UpsertBatchOk ==
    /\ pc = "batch"
    /\ batch_i < Len(points)
    /\ LET batch == Batch(batch_i)
           ids == {batch[k].id : k \in 1..Len(batch)}
       IN store' = [i \in (DOMAIN store) \cup ids |->
                      IF i \in ids
                      THEN (CHOOSE p \in {batch[k] : k \in 1..Len(batch)} :
                               p.id = i)
                      ELSE store[i]]
    /\ batch_i' = batch_i + BatchSize
    /\ UNCHANGED <<texts, hierarchy_map, current_hierarchy_stack, points, idx,
                   pc, returned, code, path, embeddings>>
    /\ UNCHANGED <<reindexed, failed>>
    /\ UNCHANGED query_state
    /\ UNCHANGED call_state

\* qdrant_client.upsert of the batch at batch_i raises: return 0
UpsertBatchFail ==
    /\ pc = "batch"
    /\ batch_i < Len(points)
    /\ returned' = 0
    /\ pc' = "done"
    /\ UNCHANGED <<texts, hierarchy_map, current_hierarchy_stack, points, idx,
                   store, code, path, embeddings>>
    /\ UNCHANGED rest

\* the range is exhausted: return len(points)
UpsertReturn ==
    /\ pc = "batch"
    /\ batch_i >= Len(points)
    /\ returned' = Len(points)
    /\ pc' = "done"
    /\ UNCHANGED <<texts, hierarchy_map, current_hierarchy_stack, points, idx,
                   store, code, path, embeddings>>
    /\ UNCHANGED rest

NextBatch == UpsertBatchOk \/ UpsertBatchFail \/ UpsertReturn

SpecBatch == InitBatch /\ [][NextBatch]_vars

\* ----------------------------------------------------- answering a query
\* the largest number of sub-queries of a decomposition
MaxSub == 2

\* top_k=3
TopK == 3

UserQuery == "height and setback"

SubQueries == {"height", "setback"}

Queries == SubQueries \cup {UserQuery}

\* the document the collection was indexed from
IndexedDocument ==
    << HeadChunk(<<150, 7>>, "Setbacks"),
       BodyChunk,
       HeadChunk(<<150, 7, 1>>, "Permitted Uses"),
       SubChunk("Setbacks") >>

\* the loop of upsert_embeddings_to_qdrant from chunk i on
RECURSIVE IndexFrom(_, _, _, _)
IndexFrom(doc, hmap, i, stack) ==
    IF i >= Len(doc)
    THEN <<>>
    ELSE LET content == doc[i + 1]
             h == extract_heading_and_hierarchy(content)
             full_hierarchy ==
                 IF h.code # <<>>
                 THEN get_full_hierarchy_path(h.code, hmap)
                 ELSE IF stack # <<>> THEN Join(stack) ELSE <<>>
             newstack ==
                 IF h.code # <<>> /\ h.title # ""
                 THEN PushHeading(stack, h.level, h.title)
                 ELSE stack
         IN <<MakePoint(i, Vec(content), content, h, full_hierarchy)>>
               \o IndexFrom(doc, hmap, i + 1, newstack)

\* the collection after upsert_embeddings_to_qdrant(embeddings, doc)
IndexedStore(doc) ==
    LET pts == IndexFrom(doc, build_hierarchical_structure(doc), 0, <<>>)
    IN [i \in 0..(Len(doc) - 1) |-> pts[i + 1]]

\* the keys of the payload the indexer writes
PayloadFields ==
    {"text", "heading_code", "title", "hierarchy", "level", "page", "source",
     "chunk_index"}

Payload(p) == [f \in PayloadFields |-> p[f]]

\* query_points: the limit nearest points, nearest first; the order of
\* the points by similarity to a query is the store's, fixed per query
search_similar_texts(st, rk, q) ==
    LET n == Cardinality(DOMAIN st)
        asc == [k \in 1..n |-> k - 1]
        order == IF rk[q] = "asc" THEN asc ELSE Reverse(asc)
        top == SubSeq(order, 1, Min({TopK, n}))
    IN [k \in 1..Len(top) |->
          [score |-> [q |-> q, id |-> top[k]],
           payload |-> Payload(st[top[k]])]]

\* the falsy value of a payload field: "" for a string, an empty code or
\* an empty path
EmptyValue(field) ==
    IF field \in {"title", "heading_title", "source"} THEN "" ELSE <<>>

\* if res.payload.get(field):
Has(payload, field) ==
    /\ field \in DOMAIN payload
    /\ payload[field] # EmptyValue(field)

\* the lines of one hit; a line that is left out is an empty field
FormatHit(res) ==
    [score |-> res.score,
     section |-> IF Has(res.payload, "hierarchy")
                 THEN res.payload["hierarchy"] ELSE <<>>,
     code |-> IF Has(res.payload, "heading_code")
              THEN res.payload["heading_code"] ELSE <<>>,
     title |-> IF Has(res.payload, "heading_title")
               THEN res.payload["heading_title"] ELSE "",
     text |-> res.payload["text"]]

\* the header line with the query, then the hits in the order of results
format_search_results(results, q) ==
    [header |-> q,
     hits |-> [i \in 1..Len(results) |-> FormatHit(results[i])]]

\* the fallback of transform_query
Fallback(user_query) ==
    [sub_queries |-> <<user_query>>, combined_query |-> user_query,
     best_query |-> user_query, original_query |-> user_query]

SubQueryLists == UNION {[1..k -> SubQueries] : k \in 0..MaxSub}

\* a parsed response with the four keys is returned as it is
ParsedResults ==
    [sub_queries : SubQueryLists, combined_query : Queries,
     best_query : Queries, original_query : Queries]

\* mutant: the sub-queries are searched first
QueriesToProcessSubFirst(qr) ==
    qr.sub_queries
        \o <<qr.best_query, qr.combined_query, qr.original_query>>

\* queries_to_process, then the sub-queries
QueriesToProcess(qr) ==
    <<qr.best_query, qr.combined_query, qr.original_query>>
        \o qr.sub_queries

\* chunks_pdf.initialize_database(pdf_path, collection_name) with the
\* given client: the exception it ends with, or "ok"
initialize_database(qdrant_client, key) ==
    IF ~key THEN "ValueError"
    ELSE IF qdrant_client = "None" THEN "AttributeError"
    ELSE "ok"

Rankings == [Queries -> {"asc", "desc"}]

InitQuery ==
    /\ texts = IndexedDocument
    /\ embeddings = AllEmbedded(texts)
    /\ hierarchy_map = EmptyMap
    /\ current_hierarchy_stack = <<>>
    /\ points = <<>>
    /\ idx = 0
    /\ returned = -1
    /\ code = <<>>
    /\ path = <<>>
    /\ ReindexIdle /\ EmbedIdle /\ BatchIdle /\ CallIdle
    /\ pc = "check"
    /\ env_key \in BOOLEAN
    /\ \/ /\ collection = "present"
          /\ store = IndexedStore(IndexedDocument)
          /\ ranking \in Rankings
       \/ /\ collection = "present"
          /\ store = EmptyStore
          /\ ranking = [q \in Queries |-> "asc"]
       \/ /\ collection = "absent"
          /\ store = EmptyStore
          /\ ranking = [q \in Queries |-> "asc"]
    /\ query_result = NoQueryResult
    /\ searches = <<>>
    /\ all_contexts = <<>>
    /\ response = ""

indexing == <<texts, hierarchy_map, current_hierarchy_stack, points, idx,
              returned, code, path, embeddings, reindexed, failed, batch_i>>

\* qdrant.get_collection succeeds
CollectionFound ==
    /\ pc = "check"
    /\ collection = "present"
    /\ pc' = "transform"
    /\ UNCHANGED <<indexing, store, query_state>>
    /\ UNCHANGED call_state

\* qdrant.get_collection raises: initialize_database(PDF_PATH,
\* COLLECTION_NAME) is called without a client, and what it raises is
\* caught by the outer except
CollectionNotFound ==
    /\ pc = "check"
    /\ collection = "absent"
    /\ LET outcome == initialize_database("None", env_key)
       IN IF outcome = "ok"
          THEN /\ pc' = "transform"
               /\ collection' = "present"
               /\ store' = IndexedStore(IndexedDocument)
               /\ response' = response
          ELSE /\ pc' = "failed"
               /\ response' = "error: initialize_database"
               /\ UNCHANGED <<collection, store>>
    /\ UNCHANGED <<indexing, env_key, query_result, searches, all_contexts,
                   ranking>>
    /\ UNCHANGED call_state

\* transform_query returns the parsed response
TransformParsed ==
    /\ pc = "transform"
    /\ query_result' \in ParsedResults
    /\ pc' = "search"
    /\ UNCHANGED <<indexing, store, collection, env_key, searches,
                   all_contexts, response, ranking>>
    /\ UNCHANGED call_state

\* transform_query returns its fallback
TransformFallback ==
    /\ pc = "transform"
    /\ query_result' = Fallback(UserQuery)
    /\ pc' = "search"
    /\ UNCHANGED <<indexing, store, collection, env_key, searches,
                   all_contexts, response, ranking>>
    /\ UNCHANGED call_state

\* one iteration of the two search loops
SearchOk ==
    /\ pc = "search"
    /\ Len(searches) < Len(QueriesToProcess(query_result))
    /\ LET q == QueriesToProcess(query_result)[Len(searches) + 1]
           results == search_similar_texts(store, ranking, q)
       IN /\ searches' = Append(searches, q)
          /\ all_contexts' =
                 Append(all_contexts, format_search_results(results, q))
    /\ UNCHANGED <<indexing, store, collection, env_key, query_result,
                   response, pc, ranking>>
    /\ UNCHANGED call_state

\* generate_query_embedding or query_points raises
SearchRaise ==
    /\ pc = "search"
    /\ Len(searches) < Len(QueriesToProcess(query_result))
    /\ pc' = "failed"
    /\ response' = "error: search_similar_texts"
    /\ UNCHANGED <<indexing, store, collection, env_key, query_result,
                   searches, all_contexts, ranking>>
    /\ UNCHANGED call_state

\* combined_context = "\n".join(all_contexts)
Combine ==
    /\ pc = "search"
    /\ Len(searches) = Len(QueriesToProcess(query_result))
    /\ pc' = "respond"
    /\ UNCHANGED <<indexing, store, query_state>>
    /\ UNCHANGED call_state

\* get_llm_response returns
ResponseOk ==
    /\ pc = "respond"
    /\ response' = "answer"
    /\ pc' = "answered"
    /\ UNCHANGED <<indexing, store, collection, env_key, query_result,
                   searches, all_contexts, ranking>>
    /\ UNCHANGED call_state

\* get_llm_response raises
ResponseRaise ==
    /\ pc = "respond"
    /\ response' = "error: get_llm_response"
    /\ pc' = "failed"
    /\ UNCHANGED <<indexing, store, collection, env_key, query_result,
                   searches, all_contexts, ranking>>
    /\ UNCHANGED call_state

NextQuery ==
    \/ CollectionFound
    \/ CollectionNotFound
    \/ TransformParsed
    \/ TransformFallback
    \/ SearchOk
    \/ SearchRaise
    \/ Combine
    \/ ResponseOk
    \/ ResponseRaise

SpecQuery == InitQuery /\ [][NextQuery]_vars

\* ------------------------------------- the resolver as a function of its
\* arguments: any code, any index of at most MaxKeys entries
IndexKeys == HeadingCodes \cup {<<150>>}
ResolveCodes == IndexKeys \cup {<<>>}

IndexOver(K, f) ==
    [c \in K |-> [title |-> f[c], level |-> CountDots(c), content |-> <<>>]]

Indexes ==
    UNION {{IndexOver(K, f) : f \in [K -> Titles]} :
              K \in {S \in SUBSET IndexKeys : Cardinality(S) <= MaxKeys}}

InitResolve ==
    /\ code \in ResolveCodes
    /\ hierarchy_map \in Indexes
    /\ path = <<>>
    /\ pc = "resolve"
    /\ texts = <<>>
    /\ current_hierarchy_stack = <<>>
    /\ points = <<>>
    /\ idx = 0
    /\ store = EmptyStore
    /\ returned = -1
    /\ embeddings = <<>>
    /\ RestIdle

\* a call get_full_hierarchy_path(code, hierarchy_map)
Resolve ==
    /\ pc = "resolve"
    /\ path' = get_full_hierarchy_path(code, hierarchy_map)
    /\ pc' = "resolved"
    /\ UNCHANGED <<texts, hierarchy_map, current_hierarchy_stack, points, idx,
                   store, returned, code, embeddings>>
    /\ UNCHANGED rest

NextResolve == Resolve

SpecResolve == InitResolve /\ [][NextResolve]_vars

\* --------------------------------------- heading extraction as a function
\* the largest number of lines of a chunk handed to the extractor
MaxLines == 2

MultiLineChunks == UNION {[1..n -> Lines] : n \in 1..MaxLines}

InitExtract ==
    /\ texts = <<>>
    /\ hierarchy_map = EmptyMap
    /\ current_hierarchy_stack = <<>>
    /\ points = <<>>
    /\ idx = 0
    /\ pc = "extract"
    /\ store = EmptyStore
    /\ returned = -1
    /\ code = <<>>
    /\ path = <<>>
    /\ embeddings = <<>>
    /\ ReindexIdle /\ EmbedIdle /\ BatchIdle /\ QueryIdle
    /\ call \in MultiLineChunks
    /\ ops = {}
    /\ result = <<>>

\* extract_heading_and_hierarchy(text)
Extract ==
    /\ pc = "extract"
    /\ result' = extract_heading_and_hierarchy(call)
    /\ pc' = "extracted"
    /\ UNCHANGED <<texts, hierarchy_map, current_hierarchy_stack, points, idx,
                   store, returned, code, path, embeddings>>
    /\ UNCHANGED <<reindexed, failed, batch_i, query_state, call, ops>>

NextExtract == Extract

SpecExtract == InitExtract /\ [][NextExtract]_vars

\* ---------------------------------------------- transform_query as a function
\* the keys transform_query asks for
RequiredKeys ==
    {"sub_queries", "combined_query", "best_query", "original_query"}

\* A JSON value is known by its type and by the strings it answers
\* "key in value" for: the keys of an object, the members of an array,
\* the substrings of a string.  iterable tells whether the value under
\* sub_queries can be enumerated.
JsonObjects ==
    [type : {"dict"}, keys : SUBSET RequiredKeys, iterable : BOOLEAN]

JsonOthers ==
    [type : {"list", "string"}, keys : {{}, RequiredKeys}, iterable : {TRUE}]
        \cup [type : {"number"}, keys : {{}}, iterable : {TRUE}]

JsonValues == JsonObjects \cup JsonOthers

NoJson == [type |-> "none", keys |-> {}, iterable |-> TRUE]

\* the pieces of a reply: the opening fence of a json code block, a bare
\* code fence, prose, a JSON value
FenceJson == [tok |-> "fence_json", val |-> NoJson]
Fence == [tok |-> "fence", val |-> NoJson]
Prose == [tok |-> "prose", val |-> NoJson]
Json(j) == [tok |-> "json", val |-> j]

\* the replies of the model explored
Replies ==
    UNION {{ <<Json(j)>>,
             <<FenceJson, Json(j), Fence>>,
             <<Prose, FenceJson, Json(j), Fence, Prose>>,
             <<Fence, Json(j), Fence>>,
             <<Prose, Json(j)>> } : j \in JsonValues}
        \cup {<<>>, <<Prose>>}

\* the tokens in which the json fence, and any fence, is found: the bare
\* fence is also found inside the json fence
JsonFenceToks == {"fence_json"}
AnyFenceToks == {"fence", "fence_json"}

\* the part of s before the first piece whose token is in toks
RECURSIVE Before(_, _)
Before(s, toks) ==
    IF s = <<>> \/ Head(s).tok \in toks THEN <<>>
    ELSE <<Head(s)>> \o Before(Tail(s), toks)

\* the part of s after the first piece whose token is in toks
RECURSIVE After(_, _)
After(s, toks) ==
    IF s = <<>> THEN <<>>
    ELSE IF Head(s).tok \in toks THEN Tail(s)
    ELSE After(Tail(s), toks)

\* the part after the first json fence (up to the next one), then the
\* part before the first fence of either kind, then strip()
Clean(raw) ==
    LET a == IF \E i \in 1..Len(raw) : raw[i].tok \in JsonFenceToks
             THEN Before(After(raw, JsonFenceToks), JsonFenceToks)
             ELSE raw
    IN IF \E i \in 1..Len(a) : a[i].tok \in AnyFenceToks
       THEN Before(a, AnyFenceToks)
       ELSE a

\* json.loads: one JSON value and nothing else, or JSONDecodeError
Loads(cleaned) ==
    IF Len(cleaned) = 1 /\ cleaned[1].tok = "json"
    THEN cleaned[1].val
    ELSE NoJson

\* mutant: the parsed reply is returned without the test for the keys
transform_query_unchecked(user_query, llm) ==
    IF llm.outcome = "raise"
    THEN [outcome |-> "return", value |-> Fallback(user_query)]
    ELSE LET parsed == Loads(Clean(llm.reply))
         IN IF parsed.type = "none"
            THEN [outcome |-> "return", value |-> Fallback(user_query)]
            ELSE [outcome |-> "return", value |-> parsed]

\* transform_query: the reply is cleaned and parsed; a parsed reply that
\* answers for the four keys is printed and returned, and everything
\* else, every exception included, ends in the fallback
transform_query(user_query, llm) ==
    IF llm.outcome = "raise"
    THEN [outcome |-> "return", value |-> Fallback(user_query)]
    ELSE LET parsed == Loads(Clean(llm.reply))
         IN IF parsed.type = "none"
            THEN [outcome |-> "return", value |-> Fallback(user_query)]
            ELSE IF parsed.type = "number"
            THEN [outcome |-> "return", value |-> Fallback(user_query)]
            ELSE IF ~(RequiredKeys \subseteq parsed.keys)
            THEN [outcome |-> "return", value |-> Fallback(user_query)]
            ELSE IF parsed.type # "dict" \/ ~parsed.iterable
            THEN [outcome |-> "return", value |-> Fallback(user_query)]
            ELSE [outcome |-> "return", value |-> parsed]

LlmOutcomes ==
    {[outcome |-> "raise", reply |-> <<>>]}
        \cup {[outcome |-> "reply", reply |-> r] : r \in Replies}

InitTransform ==
    /\ texts = <<>>
    /\ hierarchy_map = EmptyMap
    /\ current_hierarchy_stack = <<>>
    /\ points = <<>>
    /\ idx = 0
    /\ pc = "transform_query"
    /\ store = EmptyStore
    /\ returned = -1
    /\ code = <<>>
    /\ path = <<>>
    /\ embeddings = <<>>
    /\ ReindexIdle /\ EmbedIdle /\ BatchIdle /\ QueryIdle
    /\ call \in [user_query : Queries, llm : LlmOutcomes]
    /\ ops = {}
    /\ result = <<>>

\* transform_query(user_query)
CallTransform ==
    /\ pc = "transform_query"
    /\ result' = transform_query(call.user_query, call.llm)
    /\ pc' = "transformed"
    /\ UNCHANGED <<texts, hierarchy_map, current_hierarchy_stack, points, idx,
                   store, returned, code, path, embeddings>>
    /\ UNCHANGED <<reindexed, failed, batch_i, query_state, call, ops>>

NextTransform == CallTransform

SpecTransform == InitTransform /\ [][NextTransform]_vars

\* ------------------------------------------- opening the local storage
\* the latest value of int(time.time())
MaxTime == 2

\* the third path holds the words the retry looks for in the message of
\* the exception
StoragePaths ==
    {"./qdrant_storage", "./my_qdrant_data",
     "./already accessed by another instance"}

LockPhrase == "./already accessed by another instance"

\* what opening a storage directory meets: it opens, it is locked by
\* another client, os.makedirs fails, the client fails otherwise
StorageStates == {"ok", "locked", "makedirs_error", "client_error"}

NoClient == [client |-> "None", path |-> <<>>]

\* setup_local_qdrant_storage: os.makedirs is outside the try and its
\* exception, whose message quotes the path, leaves the function; every
\* exception of the client is caught and None is returned
setup_local_qdrant_storage(storage_path, state) ==
    IF state = "makedirs_error"
    THEN [outcome |-> "raise",
          phrase |-> (storage_path[1] = LockPhrase),
          value |-> NoClient]
    ELSE IF state = "ok"
    THEN [outcome |-> "return", phrase |-> FALSE,
          value |-> [client |-> "QdrantClient", path |-> storage_path]]
    ELSE [outcome |-> "return", phrase |-> FALSE, value |-> NoClient]

\* get_robust_qdrant_client: a path is the storage path followed by the
\* suffixes appended to it
get_robust_qdrant_client(storage_path, now, primary, unique) ==
    LET s1 == setup_local_qdrant_storage(<<storage_path>>, primary)
    IN IF s1.outcome = "return" THEN s1.value
       ELSE IF s1.phrase
       THEN LET s2 == setup_local_qdrant_storage(<<storage_path, now>>,
                                                  unique)
            IN IF s2.outcome = "return" THEN s2.value ELSE NoClient
       ELSE NoClient

InitClient ==
    /\ texts = <<>>
    /\ hierarchy_map = EmptyMap
    /\ current_hierarchy_stack = <<>>
    /\ points = <<>>
    /\ idx = 0
    /\ pc = "get_client"
    /\ store = EmptyStore
    /\ returned = -1
    /\ code = <<>>
    /\ path = <<>>
    /\ embeddings = <<>>
    /\ ReindexIdle /\ EmbedIdle /\ BatchIdle /\ QueryIdle
    /\ call \in [storage_path : StoragePaths, now : 0..MaxTime,
                 primary : StorageStates, unique : StorageStates]
    /\ ops = {}
    /\ result = <<>>

\* get_robust_qdrant_client(storage_path)
GetClient ==
    /\ pc = "get_client"
    /\ result' = get_robust_qdrant_client(call.storage_path, call.now,
                                          call.primary, call.unique)
    /\ pc' = "client_returned"
    /\ UNCHANGED <<texts, hierarchy_map, current_hierarchy_stack, points,
                   idx, store, returned, code, path, embeddings, reindexed,
                   failed, batch_i, collection, env_key, query_result,
                   searches, all_contexts, response, ranking, call, ops>>

NextClient == GetClient

SpecClient == InitClient /\ [][NextClient]_vars

\* ----------------------------------- initialize_database on local storage
\* the documents a run may load: none, one, two and three chunks
RunDocuments ==
    { <<>>,
      << HeadChunk(<<150, 7>>, "Setbacks") >>,
      << HeadChunk(<<150, 7>>, "Permitted Uses"), BodyChunk >>,
      << BodyChunk, HeadChunk(<<150, 7, 1>>, "Setbacks"), BodyChunk >> }

\* mutant: the credential is never missed
KeyMissingNever(api_key, env) == FALSE

\* if not api_key: api_key = os.getenv(...); if not api_key: raise
KeyMissing(api_key, env) == ~api_key /\ ~env

\* check_collection_exists_and_has_data: (has_data, collection_info)
check_collection_exists_and_has_data(coll, st) ==
    [has_data |-> (coll = "present" /\ st # EmptyStore),
     collection_info |-> (coll = "present")]

\* mutant: the data is processed whatever the collection holds
MustProcessAlways(has_data, force_reprocess) == TRUE

\* the negation of "if has_data and not force_reprocess: return"
MustProcess(has_data, force_reprocess) == ~(has_data /\ ~force_reprocess)

\* upsert of pts: a point replaces the stored point with its identifier
Upserted(st, pts) ==
    [i \in (DOMAIN st) \cup (DOMAIN pts) |->
        IF i \in DOMAIN pts THEN pts[i] ELSE st[i]]

InitDb ==
    /\ texts = <<>>
    /\ hierarchy_map = EmptyMap
    /\ current_hierarchy_stack = <<>>
    /\ points = <<>>
    /\ idx = 0
    /\ pc = "idle"
    /\ store = EmptyStore
    /\ returned = -1
    /\ code = <<>>
    /\ path = <<>>
    /\ embeddings = <<>>
    /\ ReindexIdle /\ EmbedIdle /\ BatchIdle
    /\ collection \in {"absent", "present"}
    /\ env_key \in BOOLEAN
    /\ query_result = NoQueryResult
    /\ searches = <<>>
    /\ all_contexts = <<>>
    /\ response = ""
    /\ ranking = << >>
    /\ CallIdle

\* initialize_database(pdf_path, api_key=..., force_reprocess=...)
StartCall ==
    /\ pc = "idle"
    /\ call' \in [api_key : BOOLEAN, force_reprocess : BOOLEAN,
                  pdf : RunDocuments]
    /\ ops' = {}
    /\ result' = <<>>
    /\ texts' = <<>>
    /\ embeddings' = <<>>
    /\ points' = <<>>
    /\ returned' = -1
    /\ pc' = "key"
    /\ UNCHANGED <<hierarchy_map, current_hierarchy_stack, idx, store, code,
                   path, reindexed, failed, batch_i, collection, env_key,
                   query_result, searches, all_contexts, response, ranking>>

\* no api_key and no GOOGLE_API_KEY: raise ValueError
KeyFail ==
    /\ pc = "key"
    /\ KeyMissing(call.api_key, env_key)
    /\ result' = "ValueError: API key"
    /\ pc' = "idle"
    /\ UNCHANGED <<texts, hierarchy_map, current_hierarchy_stack, points,
                   idx, store, returned, code, path, embeddings, reindexed,
                   failed, batch_i, collection, env_key, query_result,
                   searches, all_contexts, response, ranking, call, ops>>

KeyOk ==
    /\ pc = "key"
    /\ ~KeyMissing(call.api_key, env_key)
    /\ pc' = "client"
    /\ UNCHANGED <<texts, hierarchy_map, current_hierarchy_stack, points,
                   idx, store, returned, code, path, embeddings, reindexed,
                   failed, batch_i, collection, env_key, query_result,
                   searches, all_contexts, response, ranking, call, ops,
                   result>>

\* setup_local_qdrant_storage returns a client
ClientOk ==
    /\ pc = "client"
    /\ pc' = "check"
    /\ UNCHANGED <<texts, hierarchy_map, current_hierarchy_stack, points,
                   idx, store, returned, code, path, embeddings, reindexed,
                   failed, batch_i, collection, env_key, query_result,
                   searches, all_contexts, response, ranking, call, ops,
                   result>>

\* setup_local_qdrant_storage returns None: raise ValueError
ClientFail ==
    /\ pc = "client"
    /\ result' = "ValueError: client"
    /\ pc' = "idle"
    /\ UNCHANGED <<texts, hierarchy_map, current_hierarchy_stack, points,
                   idx, store, returned, code, path, embeddings, reindexed,
                   failed, batch_i, collection, env_key, query_result,
                   searches, all_contexts, response, ranking, call, ops>>

\* the collection holds data and force_reprocess is false: return
SkipProcessing ==
    /\ pc = "check"
    /\ ~MustProcess(
           check_collection_exists_and_has_data(collection, store).has_data,
           call.force_reprocess)
    /\ result' = "returned"
    /\ pc' = "idle"
    /\ UNCHANGED <<texts, hierarchy_map, current_hierarchy_stack, points,
                   idx, store, returned, code, path, embeddings, reindexed,
                   failed, batch_i, collection, env_key, query_result,
                   searches, all_contexts, response, ranking, call, ops>>

\* texts = load_and_split_pdf(pdf_path)
LoadPdf ==
    /\ pc = "check"
    /\ MustProcess(
           check_collection_exists_and_has_data(collection, store).has_data,
           call.force_reprocess)
    /\ texts' = call.pdf
    /\ ops' = ops \cup {"load"}
    /\ pc' = "embed"
    /\ UNCHANGED <<hierarchy_map, current_hierarchy_stack, points, idx,
                   store, returned, code, path, embeddings, reindexed,
                   failed, batch_i, collection, env_key, query_result,
                   searches, all_contexts, response, ranking, call, result>>

\* embeddings = get_embeddings(raw_texts, api_key), not empty
EmbedAll ==
    /\ pc = "embed"
    /\ texts # <<>>
    /\ embeddings' = AllEmbedded(texts)
    /\ ops' = ops \cup {"embed"}
    /\ pc' = "create"
    /\ UNCHANGED <<texts, hierarchy_map, current_hierarchy_stack, points,
                   idx, store, returned, code, path, reindexed, failed,
                   batch_i, collection, env_key, query_result, searches,
                   all_contexts, response, ranking, call, result>>

\* no chunk, no embedding: raise ValueError
EmbedNone ==
    /\ pc = "embed"
    /\ texts = <<>>
    /\ ops' = ops \cup {"embed"}
    /\ result' = "ValueError: embeddings"
    /\ pc' = "idle"
    /\ UNCHANGED <<texts, hierarchy_map, current_hierarchy_stack, points,
                   idx, store, returned, code, path, embeddings, reindexed,
                   failed, batch_i, collection, env_key, query_result,
                   searches, all_contexts, response, ranking, call>>

\* if not collection_info: init_qdrant_collection(...)
CreateCollection ==
    /\ pc = "create"
    /\ IF ~check_collection_exists_and_has_data(collection, store)
               .collection_info
       THEN /\ collection' = "present"
            /\ ops' = ops \cup {"create_collection"}
       ELSE UNCHANGED <<collection, ops>>
    /\ pc' = "upsert"
    /\ UNCHANGED <<texts, hierarchy_map, current_hierarchy_stack, points,
                   idx, store, returned, code, path, embeddings, reindexed,
                   failed, batch_i, env_key, query_result, searches,
                   all_contexts, response, ranking, call, result>>

\* upsert_embeddings_to_qdrant returns len(points)
UpsertAll ==
    /\ pc = "upsert"
    /\ points' = IndexFrom(texts, build_hierarchical_structure(texts), 0, <<>>)
    /\ store' = Upserted(store, IndexedStore(texts))
    /\ returned' = Len(texts)
    /\ ops' = ops \cup {"upsert"}
    /\ result' = "returned"
    /\ pc' = "idle"
    /\ UNCHANGED <<texts, hierarchy_map, current_hierarchy_stack, idx, code,
                   path, embeddings, reindexed, failed, batch_i, collection,
                   env_key, query_result, searches, all_contexts, response,
                   ranking, call>>

\* the upsert raises: upsert_embeddings_to_qdrant returns 0
UpsertNone ==
    /\ pc = "upsert"
    /\ points' = IndexFrom(texts, build_hierarchical_structure(texts), 0, <<>>)
    /\ returned' = 0
    /\ ops' = ops \cup {"upsert"}
    /\ result' = "returned"
    /\ pc' = "idle"
    /\ UNCHANGED <<texts, hierarchy_map, current_hierarchy_stack, idx, store,
                   code, path, embeddings, reindexed, failed, batch_i,
                   collection, env_key, query_result, searches, all_contexts,
                   response, ranking, call>>

NextDb ==
    \/ StartCall
    \/ KeyFail
    \/ KeyOk
    \/ ClientOk
    \/ ClientFail
    \/ SkipProcessing
    \/ LoadPdf
    \/ EmbedAll
    \/ EmbedNone
    \/ CreateCollection
    \/ UpsertAll
    \/ UpsertNone

SpecDb == InitDb /\ [][NextDb]_vars

\* ------------------------------------------------ vocabulary of the claims
\* the titles of a hierarchy string, delimiters dropped
Segments(h) == SelectSeq(h, LAMBDA t : t # Delim)

SeqToSet(s) == {s[i] : i \in 1..Len(s)}

\* h is n >= 1 titles with one delimiter between neighbours
WellJoined(h) ==
    /\ Len(h) = 2 * Len(Segments(h)) - 1
    /\ \A j \in 1..Len(h) : (h[j] = Delim) <=> (j % 2 = 0)

Heading(i) == extract_heading_and_hierarchy(texts[i])
IsHeading(i) == Heading(i).code # <<>>
IsSub(i) == ~IsHeading(i) /\ texts[i][1].kind = "sub"

\* heading chunks before chunk i
HeadingsBefore(i) == {j \in 1..(i - 1) : IsHeading(j)}

DocCodes == {Heading(i).code : i \in {j \in 1..Len(texts) : IsHeading(j)}}

\* the title of the last chunk of the document that carries code c
LastTitle(c) ==
    Heading(Max({i \in 1..Len(texts) : Heading(i).code = c})).title

Prefix(c, k) == SubSeq(c, 1, k)

\* titles of the prefixes of c of length k.. that head a chunk of the
\* document, shortest prefix first
RECURSIVE DocAncestors(_, _)
DocAncestors(c, k) ==
    IF k > Len(c) THEN <<>>
    ELSE (IF Prefix(c, k) \in DocCodes THEN <<LastTitle(Prefix(c, k))>>
          ELSE <<>>) \o DocAncestors(c, k + 1)

\* titles of the prefixes of c of length k.. that are keys of index m,
\* shortest prefix first
RECURSIVE IndexAncestors(_, _, _)
IndexAncestors(c, m, k) ==
    IF k > Len(c) THEN <<>>
    ELSE (IF Prefix(c, k) \in DOMAIN m THEN <<m[Prefix(c, k)].title>>
          ELSE <<>>) \o IndexAncestors(c, m, k + 1)

DistinctTitles ==
    \A i, j \in 1..Len(texts) :
        (IsHeading(i) /\ IsHeading(j) /\ i # j)
            => Heading(i).title # Heading(j).title

\* every code heads one chunk, and the parent of every code below 150.7
\* heads an earlier chunk
WellFormed ==
    /\ \A i, j \in 1..Len(texts) :
          (IsHeading(i) /\ IsHeading(j) /\ i # j)
              => Heading(i).code # Heading(j).code
    /\ \A i \in 1..Len(texts) :
          (IsHeading(i) /\ Len(Heading(i).code) > 2)
              => \E j \in HeadingsBefore(i) :
                    Heading(j).code = StripLast(Heading(i).code)

Processed == 1..Len(points)

\* ------------------------------------------------------------------ C1
\* C1 (as claimed): every record of a chunk with a numbered heading of
\* level L has a hierarchy of exactly L+1 segments joined by " > ", the
\* last one being the chunk's own title.
C1_Original ==
    \A i \in Processed :
        IsHeading(i) =>
            LET h == points[i].hierarchy
                segs == Segments(h)
            IN /\ Len(segs) = Heading(i).level + 1
               /\ WellJoined(h)
               /\ segs[Len(segs)] = Heading(i).title

\* C1 (amended): every record of a chunk with a numbered heading of level L
\* has a hierarchy of at least one and at most L segments joined by " > ":
\* one for each prefix of the code that heads a chunk of the document, from
\* the shortest prefix to the code itself, the last one being the title of
\* the last chunk that carries the code.
C1_HeadingHierarchy ==
    \A i \in Processed :
        IsHeading(i) =>
            LET h == points[i].hierarchy
                segs == Segments(h)
            IN /\ Len(segs) >= 1
               /\ Len(segs) <= Heading(i).level
               /\ WellJoined(h)
               /\ segs = DocAncestors(Heading(i).code, 1)
               /\ segs[Len(segs)] = LastTitle(Heading(i).code)

\* a heading record whose path has an ancestor and a different own title,
\* in a document that repeats a code under another title
C1_Witness ==
    /\ pc = "done"
    /\ \E i \in Processed :
          /\ IsHeading(i)
          /\ Len(Segments(points[i].hierarchy)) = Heading(i).level
          /\ Len(Segments(points[i].hierarchy)) = 2
          /\ points[i].hierarchy[1] # points[i].hierarchy[3]
    /\ \E i \in Processed :
          /\ IsHeading(i)
          /\ LastTitle(Heading(i).code) # Heading(i).title

\* ------------------------------------------------------------------ C2
\* C2: every record of a chunk without a heading stores the hierarchy that
\* the record of the nearest preceding heading chunk stores, and the empty
\* string when no earlier chunk has a heading.
C2_Inherit ==
    \A i \in Processed :
        ~IsHeading(i) =>
            points[i].hierarchy =
                IF HeadingsBefore(i) = {} THEN <<>>
                ELSE points[Max(HeadingsBefore(i))].hierarchy

\* ------------------------------------------------------------------ C3
\* C3: with pairwise distinct titles, once a heading of level L follows a
\* heading of the same or a deeper level, the headingless chunks after the
\* new heading carry the new title and not the title of the earlier one.
C3_Truncation ==
    DistinctTitles =>
        \A i \in Processed : \A j \in HeadingsBefore(i) : \A k \in HeadingsBefore(j) :
            (/\ ~IsHeading(i)
             /\ j = Max(HeadingsBefore(i))
             /\ Heading(k).level >= Heading(j).level)
                => LET segs == SeqToSet(Segments(points[i].hierarchy))
                   IN /\ Heading(j).title \in segs
                      /\ Heading(k).title \notin segs

\* ------------------------------------------------------------------ C4
HeadingStep == pc = "loop" /\ idx < Len(texts) /\ IsHeading(idx + 1)

\* C4 (as claimed): processing a heading of level L leaves a stack of
\* exactly L+1 slots, slots 0..L-1 as before and slot L the new title.
C4_Original ==
    [][HeadingStep =>
        LET L == Heading(idx + 1).level
        IN /\ Len(current_hierarchy_stack') = L + 1
           /\ Len(current_hierarchy_stack) >= L
           /\ \A s \in 1..L :
                 current_hierarchy_stack'[s] = current_hierarchy_stack[s]
           /\ current_hierarchy_stack'[L + 1] = Heading(idx + 1).title]_vars

\* C4 (amended): processing a heading of level L on a stack of n slots
\* leaves min(n, L) + 1 slots: the first min(n, L) slots as before,
\* followed by the new title.
C4_StackStep ==
    [][HeadingStep =>
        LET L == Heading(idx + 1).level
            n == Len(current_hierarchy_stack)
            keep == IF n < L THEN n ELSE L
        IN /\ Len(current_hierarchy_stack') = keep + 1
           /\ \A s \in 1..keep :
                 current_hierarchy_stack'[s] = current_hierarchy_stack[s]
           /\ current_hierarchy_stack'[keep + 1] = Heading(idx + 1).title]_vars

\* a heading has just been processed and the stack is shorter than the
\* number of headings pushed so far: slots beyond the level were discarded
C4_Witness ==
    /\ pc = "loop"
    /\ idx >= 1
    /\ IsHeading(idx)
    /\ Len(current_hierarchy_stack) < Cardinality(HeadingsBefore(idx + 1))
    /\ current_hierarchy_stack[Len(current_hierarchy_stack)] = Heading(idx).title

\* ------------------------------------------------------------------ C5
\* C5: on a well-formed document the joined stack equals the resolved path
\* of the heading just processed, and a headingless chunk stores the
\* hierarchy of the heading chunk it follows.
C5_Agree ==
    WellFormed =>
        /\ (pc \in {"loop", "done"} /\ idx >= 1 /\ IsHeading(idx))
              => Join(current_hierarchy_stack) =
                     get_full_hierarchy_path(Heading(idx).code, hierarchy_map)
        /\ \A i \in Processed :
              (~IsHeading(i) /\ HeadingsBefore(i) # {})
                  => points[i].hierarchy =
                         points[Max(HeadingsBefore(i))].hierarchy

\* ------------------------------------------------------------------ C6
\* C6: a chunk that starts with a parenthesised integer label gets the
\* hierarchy of the preceding numbered heading followed by " > " and the
\* label's title, and processing it leaves the ancestor stack unchanged.
C6_SubClause ==
    [][(/\ pc = "loop"
        /\ idx < Len(texts)
        /\ IsSub(idx + 1)
        /\ HeadingsBefore(idx + 1) # {})
          => /\ points'[idx + 1].hierarchy =
                    points[Max(HeadingsBefore(idx + 1))].hierarchy
                        \o <<Delim, texts[idx + 1][1].title>>
             /\ current_hierarchy_stack' = current_hierarchy_stack]_vars

\* ------------------------------------------------------------------ C7
\* C7: the four chunks of the worked example get the hierarchies
\* "Permitted Uses", "Permitted Uses", "Permitted Uses > Setbacks" and
\* "Permitted Uses > Setbacks > Minimum rear yard...".
C7_Scenario ==
    (texts = Scenario /\ pc = "done") =>
        /\ points[1].hierarchy = <<"Permitted Uses">>
        /\ points[2].hierarchy = <<"Permitted Uses">>
        /\ points[3].hierarchy = <<"Permitted Uses", Delim, "Setbacks">>
        /\ points[4].hierarchy = <<"Permitted Uses", Delim, "Setbacks", Delim,
                                   "Minimum rear yard...">>

\* ------------------------------------------------------------------ C8
\* C8: the hierarchy of every record is empty or has as many segments as
\* the level stored in the same record, no title occurring twice.
C8_RecordInvariant ==
    \A i \in Processed :
        LET segs == Segments(points[i].hierarchy)
        IN \/ points[i].hierarchy = <<>>
           \/ /\ Len(segs) = points[i].level
              /\ Cardinality(SeqToSet(segs)) = Len(segs)

\* ------------------------------------------------------------------ C9
HasPrefixIn(c, m) == \E k \in 1..Len(c) : Prefix(c, k) \in DOMAIN m

\* C9: the resolved path is the titles of exactly those prefixes of the
\* code (the code included) that are keys of the index, shortest prefix
\* first, joined by " > "; it is empty when no prefix is a key.
C9_Resolve ==
    pc = "resolved" =>
        /\ path = Join(IndexAncestors(code, hierarchy_map, 1))
        /\ (~HasPrefixIn(code, hierarchy_map) => path = <<>>)

\* a path with a title from either side of a prefix the index lacks
C9_Witness ==
    /\ pc = "resolved"
    /\ \E k \in 2..(Len(code) - 1) :
          /\ Prefix(code, k) \notin DOMAIN hierarchy_map
          /\ Prefix(code, k - 1) \in DOMAIN hierarchy_map
          /\ code \in DOMAIN hierarchy_map
    /\ Len(Segments(path)) = 2

\* ----------------------------------------------------------------- C10
\* the longest prefix of c that is not a key of m has this length (0: none)
TopGap(c, m) ==
    LET missing == {k \in 1..Len(c) : Prefix(c, k) \notin DOMAIN m}
    IN IF missing = {} THEN 0 ELSE Max(missing)

\* C10 (as claimed): the walk stops at the first code absent from the
\* index: the path holds the titles of the prefixes longer than the longest
\* missing prefix and nothing else.
C10_Original ==
    pc = "resolved" =>
        path = Join(IndexAncestors(code, hierarchy_map,
                                   TopGap(code, hierarchy_map) + 1))

\* C10 (amended): the walk stops only when the current code has no dot
\* left; a code absent from the index adds no title and does not stop the
\* walk, so the path has one segment for every prefix that is a key,
\* those shorter than a missing prefix included.
C10_WalkToRoot ==
    pc = "resolved" =>
        /\ Len(Segments(path)) =
               Cardinality({k \in 1..Len(code) :
                               Prefix(code, k) \in DOMAIN hierarchy_map})
        /\ \A k \in 1..Len(code) :
              Prefix(code, k) \in DOMAIN hierarchy_map
                  => hierarchy_map[Prefix(code, k)].title
                         \in SeqToSet(Segments(path))

\* the code itself is not a key, yet the path holds a shorter prefix's title
C10_Witness ==
    /\ pc = "resolved"
    /\ code # <<>>
    /\ code \notin DOMAIN hierarchy_map
    /\ path # <<>>

\* ----------------------------------------------------------------- C11
\* C11: the index holds one entry per heading code, with the title, level
\* and text of the last chunk that carries the code, and the path of every
\* heading record uses that last title for each of its prefixes in the
\* index, its own code included.
C11_LastWins ==
    pc \in {"loop", "done"} =>
        /\ DOMAIN hierarchy_map = DocCodes
        /\ \A c \in DocCodes :
              LET last == Max({i \in 1..Len(texts) : Heading(i).code = c})
              IN /\ hierarchy_map[c].title = Heading(last).title
                 /\ hierarchy_map[c].level = Heading(last).level
                 /\ hierarchy_map[c].content = texts[last]
        /\ \A i \in Processed :
              IsHeading(i) =>
                  LET segs == Segments(points[i].hierarchy)
                      c == Heading(i).code
                  IN /\ segs[Len(segs)] = LastTitle(c)
                     /\ \A k \in 1..Len(c) :
                           Prefix(c, k) \in DocCodes
                               => LastTitle(Prefix(c, k)) \in SeqToSet(segs)

\* the record of an earlier chunk ends with the title of a later chunk
\* that repeats its code under another title
C11_Witness ==
    /\ pc = "done"
    /\ \E i \in Processed : \E j \in Processed :
          /\ i < j
          /\ IsHeading(i)
          /\ Heading(j).code = Heading(i).code
          /\ Heading(j).title # Heading(i).title
          /\ LastTitle(Heading(i).code) = Heading(j).title
          /\ points[i].hierarchy[Len(points[i].hierarchy)] = Heading(j).title

\* ----------------------------------------------------------------- C12
\* C12: the k-th record has identifier and chunk_index k-1 and holds the
\* k-th chunk, so identifiers are unique, dense and zero-based, and when
\* the loop has ended there is exactly one record per chunk.
C12_Identifiers ==
    /\ \A k \in 1..Len(points) :
          /\ points[k].id = k - 1
          /\ points[k].chunk_index = k - 1
          /\ points[k].text = texts[k]
    /\ pc = "done" => Len(points) = Len(texts)

\* a run over several chunks has ended and its records are in the store
C12_Witness ==
    /\ pc = "done"
    /\ Len(points) >= 2
    /\ returned = Len(points)
    /\ DOMAIN store = 0..(Len(points) - 1)

\* ----------------------------------------------------------------- C13
\* C13: when the same chunks and vectors are indexed again into a store
\* that holds the records of an earlier run, the new records are the
\* stored ones and the store keeps its content and its point count.
C13_Idempotent ==
    [][(pc = "loop" /\ pc' = "done" /\ reindexed /\ store # EmptyStore)
          => /\ store' = store
             /\ Cardinality(DOMAIN store') = Len(points)
             /\ \A k \in 1..Len(points) : store[points[k].id] = points[k]]_vars

\* a second run over several chunks has succeeded
C13_Witness ==
    /\ pc = "done"
    /\ reindexed
    /\ Len(points) >= 2
    /\ returned = Len(points)
    /\ store # EmptyStore

C19_CountWritten ==
    pc = "done" => returned = Cardinality(DOMAIN store)

\* ----------------------------------------------------------------- C14
\* C14: with k sub-queries the searches issued so far are a prefix of
\* best, combined, original, sub-query[0], ..., sub-query[k-1], the fused
\* context has one block per search in that order, a block with no hits
\* included, and once the context is combined there are exactly 3 + k
\* searches and 3 + k blocks.
C14_SearchOrder ==
    pc \in {"search", "respond", "answered"} =>
        LET k == Len(query_result.sub_queries)
            expected == [i \in 1..(3 + k) |->
                           IF i = 1 THEN query_result.best_query
                           ELSE IF i = 2 THEN query_result.combined_query
                           ELSE IF i = 3 THEN query_result.original_query
                           ELSE query_result.sub_queries[i - 3]]
        IN /\ Len(searches) <= 3 + k
           /\ Len(all_contexts) = Len(searches)
           /\ \A i \in 1..Len(searches) :
                 /\ searches[i] = expected[i]
                 /\ all_contexts[i].header = expected[i]
           /\ pc \in {"respond", "answered"} => Len(searches) = 3 + k

\* a decomposition with two different sub-queries was answered over an
\* empty collection: five blocks, none with a hit
C14_Witness ==
    /\ pc = "answered"
    /\ Len(query_result.sub_queries) = 2
    /\ query_result.sub_queries[1] # query_result.sub_queries[2]
    /\ query_result.best_query # query_result.original_query
    /\ Len(all_contexts) = 5
    /\ \A i \in 1..5 : all_contexts[i].hits = <<>>

\* ----------------------------------------------------------------- C15
\* C15 (as the specification states it): when transform_query returns its
\* fallback, the fused context is the single block of one search of the
\* original query.
C15_SingleVariant ==
    (pc \in {"respond", "answered"} /\ query_result = Fallback(UserQuery))
        => /\ searches = <<UserQuery>>
           /\ all_contexts =
                 << format_search_results(
                        search_similar_texts(store, ranking, UserQuery),
                        UserQuery) >>

\* ----------------------------------------------------------------- C16
\* C16 (as the specification states it): every search of a variant,
\* served or not, adds one block to the fused context and leaves
\* process_query searching.
C16_VariantOnly ==
    [][(pc = "search"
          /\ Len(searches) < Len(QueriesToProcess(query_result)))
          => (pc' = "search" /\ Len(all_contexts') = Len(all_contexts) + 1)]_vars

\* ----------------------------------------------------------------- C18
\* C18 (as the specification states it): when the collection is absent
\* at query time, the same call indexes the document and goes on to
\* retrieval.
C18_IndexThenContinue ==
    [][(pc = "check" /\ collection = "absent")
          => (pc' = "transform" /\ collection' = "present"
                 /\ store' # EmptyStore)]_vars

\* ----------------------------------------------------------------- C20
\* C20 (as the specification states it): the block of every hit whose
\* chunk had a heading carries the hierarchy, the heading code and the
\* heading title the indexer stored.
C20_HeadingMetadata ==
    \A b \in 1..Len(all_contexts) :
        LET results == search_similar_texts(store, ranking, searches[b])
        IN \A i \in 1..Len(results) :
              results[i].payload["title"] # ""
                  => /\ all_contexts[b].hits[i].score = results[i].score
                     /\ all_contexts[b].hits[i].section =
                            results[i].payload["hierarchy"]
                     /\ all_contexts[b].hits[i].code =
                            results[i].payload["heading_code"]
                     /\ all_contexts[b].hits[i].title =
                            results[i].payload["title"]

\* ----------------------------------------------------------------- C21
\* C21 (as the specification states it): the blocks of the fused context
\* carry the label of the variant that produced them, so two blocks of
\* different variants differ in their header even when the query text of
\* the two variants is the same.
C21_Labelled ==
    \A i \in 1..Len(all_contexts) : \A j \in 1..Len(all_contexts) :
        i # j => all_contexts[i].header # all_contexts[j].header

\* ----------------------------------------------------------------- C22
\* C22 (as the specification states it): a chunk whose first line is not
\* a numbered heading yields (None, None, None), whatever its later lines
\* are.
C22_AnchoredAtStart ==
    (pc = "extracted" /\ call[1].kind # "head") => result = NoMatch

\* ----------------------------------------------------------------- C24
\* C24: the record of every chunk that has no heading chunk at or before
\* it has an empty hierarchy, an empty heading code, an empty title and
\* level 0; in a document without any heading chunk this is every record,
\* and the run ends with one record per chunk.
C24_BeforeFirstHeading ==
    /\ \A i \in Processed :
          (\A j \in 1..i : ~IsHeading(j))
              => /\ points[i].hierarchy = <<>>
                 /\ points[i].heading_code = <<>>
                 /\ points[i].title = ""
                 /\ points[i].level = 0
    /\ (pc = "done" /\ \A j \in 1..Len(texts) : ~IsHeading(j))
          => Len(points) = Len(texts)

\* a document of several chunks, none of them with a heading and one of
\* them with a parenthesised label, has been indexed
C24_Witness ==
    /\ pc = "done"
    /\ Len(texts) >= 2
    /\ \A j \in 1..Len(texts) : ~IsHeading(j)
    /\ \E j \in 1..Len(texts) : IsSub(j)
    /\ returned = Len(texts)
    /\ \A i \in Processed : points[i].hierarchy = <<>> /\ points[i].level = 0

C26_Batching ==
    [][/\ (pc = "batch" /\ batch_i' # batch_i)
             => LET n == Len(points)
                    sent == (DOMAIN store') \ (DOMAIN store)
                IN /\ batch_i % 100 = 0
                   /\ batch_i' = batch_i + 100
                   /\ sent = batch_i..(Min({batch_i + 100, n}) - 1)
                   /\ \A i \in sent : store'[i] = points[i + 1]
                   /\ \A i \in DOMAIN store : store'[i] = store[i]
       /\ (pc = "batch" /\ pc' = "done"
              /\ (returned' # 0 \/ Len(points) = 0))
             => LET n == Len(points)
                IN /\ returned' = n
                   /\ batch_i = ((n + 99) \div 100) * 100
                   /\ store' = PointsById]_vars

\* three batches, the last of them short, have all succeeded
C26_Witness ==
    /\ pc = "done"
    /\ Len(points) > 2 * BatchSize
    /\ Len(points) % BatchSize # 0
    /\ batch_i = 3 * BatchSize
    /\ returned = Len(points)
    /\ store = PointsById

\* ----------------------------------------------------------------- C25
\* C25: transform_query returns, never raises, and what it returns
\* answers for the four keys; when the model call fails, the cleaned
\* reply is not one JSON value, or the parsed reply lacks one of the four
\* keys, it returns the fallback made of the user's query.
C25_AlwaysFourKeys ==
    pc = "transformed" =>
        LET v == result.value
            keys == IF "type" \in DOMAIN v THEN v.keys ELSE DOMAIN v
            parsed == Loads(Clean(call.llm.reply))
        IN /\ result.outcome = "return"
           /\ RequiredKeys \subseteq keys
           /\ (\/ call.llm.outcome = "raise"
               \/ parsed.type = "none"
               \/ ~(RequiredKeys \subseteq parsed.keys))
                 => /\ v = Fallback(call.user_query)
                    /\ v.sub_queries = <<call.user_query>>
                    /\ v.best_query = call.user_query
                    /\ v.combined_query = call.user_query
                    /\ v.original_query = call.user_query

\* a fenced reply whose object lacks a key ended in the fallback
C25_Witness ==
    /\ pc = "transformed"
    /\ call.llm.outcome = "reply"
    /\ Len(call.llm.reply) = 3
    /\ call.llm.reply[1] = FenceJson
    /\ call.llm.reply[2].val.type = "dict"
    /\ call.llm.reply[2].val.keys # RequiredKeys
    /\ call.llm.reply[2].val.keys # {}
    /\ result.value = Fallback(call.user_query)

\* ----------------------------------------------------------------- C28
\* C28 (as the specification states it): when the primary storage is
\* locked by another instance the client opened at the path with the
\* time suffix is returned, and no client is returned only when every
\* strategy that applies has failed.
C28_FallbackOrder ==
    pc = "client_returned" =>
        /\ (call.primary = "locked" /\ call.unique = "ok")
              => result = [client |-> "QdrantClient",
                           path |-> <<call.storage_path, call.now>>]
        /\ result = NoClient
              => /\ call.primary # "ok"
                 /\ call.primary = "locked" => call.unique # "ok"

\* ----------------------------------------------------------------- C23
\* C23: a call of initialize_database without api_key while
\* GOOGLE_API_KEY is unset raises ValueError at once: nothing has been
\* loaded, embedded, created or upserted before, and the step that raises
\* leaves the collection and its records as they were.
C23_MissingCredential ==
    [][(pc = "key" /\ ~call.api_key /\ ~env_key)
          => /\ ops = {}
             /\ texts = <<>>
             /\ embeddings = <<>>
             /\ result' = "ValueError: API key"
             /\ pc' = "idle"
             /\ ops' = {}
             /\ texts' = <<>>
             /\ embeddings' = <<>>
             /\ store' = store
             /\ collection' = collection]_vars

\* a call without credential has raised over a collection that an
\* earlier call had filled
C23_Witness ==
    /\ pc = "idle"
    /\ result = "ValueError: API key"
    /\ ~call.api_key
    /\ ~env_key
    /\ ops = {}
    /\ store # EmptyStore

\* ----------------------------------------------------------------- C27
\* C27: with a collection that holds points and force_reprocess false the
\* call returns at the check, having loaded, embedded, created and
\* upserted nothing, the store unchanged; with the collection absent or
\* empty or force_reprocess true the document is loaded, and on the way
\* to the upsert the collection is created exactly when it did not exist.
C27_SkipOrProcess ==
    [][/\ (pc = "check" /\ collection = "present" /\ store # EmptyStore
              /\ ~call.force_reprocess)
             => /\ ops = {}
                /\ pc' = "idle"
                /\ result' = "returned"
                /\ ops' = {}
                /\ texts' = <<>>
                /\ store' = store
                /\ collection' = collection
       /\ (pc = "check"
              /\ (collection = "absent" \/ store = EmptyStore
                     \/ call.force_reprocess))
             => /\ pc' = "embed"
                /\ texts' = call.pdf
                /\ "load" \in ops'
       /\ pc = "embed" => "embed" \in ops'
       /\ pc = "create"
             => /\ ("create_collection" \in ops') <=> (collection = "absent")
                /\ collection' = "present"
                /\ store' = store
                /\ pc' = "upsert"
       /\ pc = "upsert"
             => /\ {"load", "embed", "upsert"} \subseteq ops'
                /\ pc' = "idle"]_vars

\* a call has returned at the check over a filled collection
C27_Witness ==
    /\ pc = "idle"
    /\ result = "returned"
    /\ ~call.force_reprocess
    /\ ops = {}
    /\ collection = "present"
    /\ store # EmptyStore

\* ----------------------------------------------------------------- C30
\* C30 (as the specification states it): after a successful run the
\* collection holds the records of that run and no other record.
C30_OnlyLastRun ==
    (pc = "idle" /\ result = "returned" /\ "upsert" \in ops
        /\ returned = Len(texts))
        => store = IndexedStore(texts)

====
